---- MODULE Spec2Model ----
(***************************************************************************)
(* Tax / lot accounting engine of financeapi-br                            *)
(* (src/financial_api/utils.py, class TaxCalculator) together with the     *)
(* request handler that records transactions and runs it                   *)
(* (src/financial_api/views.py, tax_calculator).                           *)
(* The rate limiter (middleware.py, models.py, authentication.py), the     *)
(* price alerts (tasks.py) and the notification service (utils.py) are     *)
(* modelled next to it, each on variables of its own.                      *)
(*                                                                         *)
(* Units.  Quantities are whole shares.  price_usd, brokerage_fee and all  *)
(* gains, losses and sales are integers in cents of the respective         *)
(* currency; exchange_rate is a whole number.  The three rates of the      *)
(* engine (0.15, 0.20, 0.00005) are kept exact by expressing every amount  *)
(* that was multiplied by a rate (irrf_paid, tax_owed, day_trade_tax) in   *)
(* 1/TaxScale of a cent.                                                   *)
(*                                                                         *)
(* Specifications.  Spec: one request, the constructor taken as one step   *)
(* with the previous year's result as an input.  SpecRerun: Spec plus a    *)
(* second calculate_taxes() on the same calculator.  SpecYears: the        *)
(* constructor unfolded into the chain of calculators of the earlier       *)
(* years.  SpecConcurrent: Spec plus a second request of the same user     *)
(* that records a transaction meanwhile.  SpecRepeat: a request on an      *)
(* empty ledger followed by the same request once more.                    *)
(* SpecLimiter: the daily rate limit of RateLimitMiddleware under         *)
(* concurrent requests.  SpecAlerts: the task check_price_alerts.          *)
(* SpecNotify: NotificationService.send_price_alert and its rate limit.    *)
(***************************************************************************)
EXTENDS Integers, Sequences, FiniteSets, TLC

VARIABLES
    ledger,             \* Transaction rows of the user, ORDER BY date, created_at
    previous_year,      \* what get_previous_year_losses() returns (a dict)
    pc,                 \* position of the request / of calculate_taxes
    transactions,       \* self.transactions once evaluated: the calculator's own objects
    compensable_losses, \* self.compensable_losses
    day_trade_compensable_losses, \* self.day_trade_compensable_losses
    holdings,           \* ticker -> list of lots (local of calculate_taxes)
    remaining,          \* remaining_compensable_losses / remaining_day_trade_losses
    yearly_summary,     \* the dict calculate_taxes builds
    cursor,             \* positions of the three nested loops
    month,              \* locals of calculate_month_taxes
    fifo_log,           \* one entry per call of calculate_fifo_gain_loss
    day_log,            \* one entry per call of process_day_trades
    results,            \* summaries returned so far by this calculator
    previous_year_ledger, \* Transaction rows of the user dated in the year before
    depth,              \* nesting of TaxCalculator objects: 1 is the view's, for the
                        \* requested year, d + 1 the one made by the d-th for year - d
    chain_log,          \* how each call made by get_previous_year_losses ended
    invoked,            \* the ledger as it was when the view made its calculator
    daily_requests,     \* column User.daily_requests of the user's row
    requests,           \* API requests of the user: position and the User object
                        \* RateLimitMiddleware loaded for each
    alerts,             \* PriceAlert rows, in the order they were created
    quotes,             \* ticker -> price_brl of its latest ADRQuote, NoQuote if none
    task,               \* check_price_alerts: position, its queryset, runs finished
    checked,            \* one entry per alert a run of check_price_alerts visited
    rate_limiter,       \* self.rate_limiter of the latest NotificationService
    sent,               \* (user, channel) -> times at which a notification went out
    now,                \* timezone.now(), in seconds
    alert_calls         \* calls of send_price_alert so far

\* the variables of the tax engine and of its request handler
engine == <<ledger, previous_year, pc, transactions, compensable_losses,
            day_trade_compensable_losses, holdings, remaining, yearly_summary,
            cursor, month, fifo_log, day_log, results,
            previous_year_ledger, depth, chain_log, invoked>>

\* the variables of the rate limiter
limiter == <<daily_requests, requests>>

\* the variables of the price alerts
alerting == <<alerts, quotes, task, checked>>

\* the variables of the notification service
notifying == <<rate_limiter, sent, now, alert_calls>>

\* everything outside the tax engine
surroundings == <<limiter, alerting, notifying>>

vars == <<engine, surroundings>>

----------------------------------------------------------------------------
(* Bounds of the model *)

MaxTx == 3

\* nested calls of TaxCalculator(...) the interpreter allows before RecursionError
RecursionLimit == 3

\* transactions dated in the year before that one request may carry
MaxEarlier == 1

\* API requests of one user that may be under way at once
MaxRequests == 3

\* settings.RATE_LIMIT_PLANS[user.plan], the daily limit of the user's plan
DailyLimit == 2

\* price alerts created, and runs of check_price_alerts
MaxAlerts == 2
MaxRuns == 2

\* calls of send_price_alert, and the half hours the clock may advance
MaxCalls == 11
MaxTicks == 2

(* Program constants *)

TaxScale == 20000
TAX_RATE == 3000
DAY_TRADE_TAX_RATE == 4000
IRRF_RATE == 1
MONTHLY_EXEMPTION == 2000000
SWING_TRADE_EXEMPTION == 2000000

\* NotificationService._check_rate_limit: max_per_hour and the length of its window
max_per_hour == 10
HourSeconds == 3600

----------------------------------------------------------------------------
(* Generic helpers *)

Min(a, b) == IF a <= b THEN a ELSE b
Max(a, b) == IF a >= b THEN a ELSE b
Abs(a) == IF a < 0 THEN -a ELSE a

\* the elements of s, first occurrence of each, in order (dict insertion order)
RECURSIVE Distinct(_)
Distinct(s) ==
    IF s = <<>> THEN <<>>
    ELSE LET r == Distinct(SubSeq(s, 1, Len(s) - 1))
             x == s[Len(s)]
         IN  IF \E i \in 1..Len(r) : r[i] = x THEN r ELSE Append(r, x)

Indices(s) == [i \in 1..Len(s) |-> i]

----------------------------------------------------------------------------
(* Transactions *)

Tickers == {"PBR", "VALE"}

Tx(ticker, type, qty, price, rate, m, d, fee) ==
    [ticker |-> ticker, transaction_type |-> type, quantity |-> qty,
     price_usd |-> price, exchange_rate |-> rate,
     date |-> [month |-> m, day |-> d],
     brokerage_fee |-> fee, is_day_trade |-> FALSE]

total_value_usd(t) == t.quantity * t.price_usd + t.brokerage_fee
total_value_brl(t) == total_value_usd(t) * t.exchange_rate

DateLeq(a, b) == a.month < b.month \/ (a.month = b.month /\ a.day <= b.day)

\* ORDER BY date, created_at holds of every list the engine reads
Sorted(txs) == \A i \in 1..Len(txs) - 1 : DateLeq(txs[i].date, txs[i + 1].date)

----------------------------------------------------------------------------
(* TaxCalculator.process_day_trades *)

\* variant of MatchPair that leaves is_day_trade as it was
MatchPairUnflagged(st, b, s) ==
    LET buy  == st.txs[b]
        sell == st.txs[s]
    IN  IF buy.quantity > 0 /\ sell.quantity > 0
        THEN LET day_trade_qty == Min(buy.quantity, sell.quantity)
                 gain_loss == day_trade_qty * sell.price_usd * sell.exchange_rate
                              - day_trade_qty * buy.price_usd * buy.exchange_rate
             IN  [txs    |-> [st.txs EXCEPT
                                ![b].quantity = @ - day_trade_qty,
                                ![s].quantity = @ - day_trade_qty],
                  gains  |-> IF gain_loss > 0 THEN st.gains + gain_loss ELSE st.gains,
                  losses |-> IF gain_loss > 0 THEN st.losses
                                              ELSE st.losses + Abs(gain_loss)]
        ELSE st

\* one pass of the body of the two nested loops, for the buy at index b and the
\* sell at index s of the list txs; st = [txs, gains, losses]
MatchPair(st, b, s) ==
    LET buy  == st.txs[b]
        sell == st.txs[s]
    IN  IF buy.quantity > 0 /\ sell.quantity > 0
        THEN LET day_trade_qty == Min(buy.quantity, sell.quantity)
                 buy_value  == day_trade_qty * buy.price_usd * buy.exchange_rate
                 sell_value == day_trade_qty * sell.price_usd * sell.exchange_rate
                 gain_loss  == sell_value - buy_value
             IN  [txs    |-> [st.txs EXCEPT
                                ![b].quantity = @ - day_trade_qty,
                                ![s].quantity = @ - day_trade_qty,
                                ![b].is_day_trade = TRUE,
                                ![s].is_day_trade = TRUE],
                  gains  |-> IF gain_loss > 0 THEN st.gains + gain_loss ELSE st.gains,
                  losses |-> IF gain_loss > 0 THEN st.losses
                                              ELSE st.losses + Abs(gain_loss)]
        ELSE st

\* variant of PairsOf whose outer loop starts with the last buy
PairsOfLastBuyFirst(buys, sells) ==
    [k \in 1..(Len(buys) * Len(sells)) |->
        <<buys[Len(buys) - ((k - 1) \div Len(sells))], sells[((k - 1) % Len(sells)) + 1]>>]

\* for buy in buys: for sell in sells: the pairs in the order the loops visit them
PairsOf(buys, sells) ==
    [k \in 1..(Len(buys) * Len(sells)) |->
        <<buys[((k - 1) \div Len(sells)) + 1], sells[((k - 1) % Len(sells)) + 1]>>]

RECURSIVE MatchPairs(_, _)
MatchPairs(st, pairs) ==
    IF pairs = <<>> THEN st
    ELSE MatchPairs(MatchPair(st, Head(pairs)[1], Head(pairs)[2]), Tail(pairs))

\* the loop over ticker_transactions.items(), tickers in first-occurrence order
RECURSIVE MatchTickers(_, _, _)
MatchTickers(st, idxs, tickers) ==
    IF tickers = <<>> THEN st
    ELSE LET ticker_txs == SelectSeq(idxs, LAMBDA i : st.txs[i].ticker = Head(tickers))
             buys  == SelectSeq(ticker_txs, LAMBDA i : st.txs[i].transaction_type = "buy")
             sells == SelectSeq(ticker_txs, LAMBDA i : st.txs[i].transaction_type = "sell")
         IN  MatchTickers(MatchPairs(st, PairsOf(buys, sells)), idxs, Tail(tickers))

\* process_day_trades(transactions) for the transactions of txs at the indices idxs:
\* the result dict and the list with the objects it changed
process_day_trades(txs, idxs) ==
    MatchTickers([txs |-> txs, gains |-> 0, losses |-> 0], idxs,
                 Distinct([k \in 1..Len(idxs) |-> txs[idxs[k]].ticker]))

----------------------------------------------------------------------------
(* TaxCalculator.calculate_fifo_gain_loss *)

Reverse(s) == [i \in 1..Len(s) |-> s[Len(s) + 1 - i]]

RECURSIVE FifoLoop(_, _, _, _)
FifoLoop(sell, lots, remaining_quantity, total_gain_loss) ==
    IF remaining_quantity > 0 /\ lots # <<>>
    THEN LET holding == Head(lots)
             whole   == holding.quantity <= remaining_quantity
             quantity_used == IF whole THEN holding.quantity ELSE remaining_quantity
             cost_basis_brl == quantity_used * holding.price * holding.exchange_rate
             sale_value_brl == quantity_used * sell.price_usd * sell.exchange_rate
             gain_loss == sale_value_brl - cost_basis_brl
         IN  FifoLoop(sell,
                      IF whole THEN Tail(lots)
                      ELSE <<[holding EXCEPT !.quantity = @ - quantity_used]>> \o Tail(lots),
                      IF whole THEN remaining_quantity - quantity_used ELSE 0,
                      total_gain_loss + gain_loss)
    ELSE [gain_loss |-> total_gain_loss, holdings |-> lots,
          remaining_quantity |-> remaining_quantity]

\* variant of calculate_fifo_gain_loss that drains the newest lot first
calculate_lifo_gain_loss(sell_transaction, lots) ==
    LET r == FifoLoop(sell_transaction, Reverse(lots), sell_transaction.quantity, 0)
    IN  [r EXCEPT !.holdings = Reverse(@)]

\* variant of calculate_fifo_gain_loss that leaves a used-up head lot in the list
calculate_fifo_keep_spent(sell_transaction, lots) ==
    LET r == FifoLoop(sell_transaction, lots, sell_transaction.quantity, 0)
    IN  IF lots # <<>> /\ Head(lots).quantity <= sell_transaction.quantity
        THEN [r EXCEPT !.holdings = <<[Head(lots) EXCEPT !.quantity = 0]>> \o @]
        ELSE r

\* the value returned, the list as the call leaves it, and what was left unfilled
calculate_fifo_gain_loss(sell_transaction, lots) ==
    FifoLoop(sell_transaction, lots, sell_transaction.quantity, 0)

\* the dict appended to holdings[ticker] for a buy
Lot(t) ==
    [quantity |-> t.quantity, price |-> t.price_usd, exchange_rate |-> t.exchange_rate,
     date |-> t.date, brokerage_fee |-> t.brokerage_fee]

----------------------------------------------------------------------------
(* TaxCalculator.group_transactions_by_month and the per-day grouping *)

\* variant of MonthKeys that lists the newest month first
MonthKeysNewestFirst(txs) == Reverse(Distinct([i \in 1..Len(txs) |-> txs[i].date.month]))

\* the month keys of monthly_data, in insertion order
MonthKeys(txs) == Distinct([i \in 1..Len(txs) |-> txs[i].date.month])

\* monthly_data[m], as indices into txs
MonthTxs(txs, m) == SelectSeq(Indices(txs), LAMBDA i : txs[i].date.month = m)

\* the keys of daily_transactions for month m, in insertion order
DayKeys(txs, m) ==
    LET idxs == MonthTxs(txs, m)
    IN  Distinct([k \in 1..Len(idxs) |-> txs[idxs[k]].date])

\* daily_transactions[d] within month m, as indices into txs
DayTxs(txs, m, d) == SelectSeq(MonthTxs(txs, m), LAMBDA i : txs[i].date = d)

----------------------------------------------------------------------------
(* TaxCalculator.calculate_month_taxes *)

\* the locals as they stand when the loop over the days begins.  The two
\* carryforward balances arrive as the parameters compensable_losses and
\* day_trade_losses; the assignment day_trade_losses = Decimal('0.00') that
\* initialises the month's accumulator rebinds the second parameter.
MonthLocals(m, compensable_losses_arg, day_trade_losses_arg) ==
    [month |-> m,
     month_gains |-> 0, month_losses |-> 0, month_sales_total |-> 0,
     day_trade_gains |-> 0, day_trade_losses |-> 0, irrf_paid |-> 0,
     compensable_losses |-> compensable_losses_arg,
     compensable_losses_used |-> 0, day_trade_losses_used |-> 0]

\* "Apply day trade losses from previous year first", then accumulate the day's
\* result r = [gains, losses] into the month's locals loc
ApplyDayTradeResult(loc, r) ==
    LET offset == r.gains > 0 /\ loc.day_trade_losses > 0
        losses_to_use == IF offset THEN Min(r.gains, loc.day_trade_losses) ELSE 0
    IN  [loc EXCEPT
            !.day_trade_losses_used = @ + losses_to_use,
            !.day_trade_gains  = @ + (r.gains - losses_to_use),
            !.day_trade_losses = (@ - losses_to_use) + r.losses]

\* the IRRF and sales-volume lines run for every sell
AccumulateSale(loc, t) ==
    [loc EXCEPT
        !.irrf_paid = @ + total_value_brl(t) * IRRF_RATE,
        !.month_sales_total = @ + total_value_brl(t)]

\* variant of ApplyGainLoss that offsets the gain but keeps the balance
ApplyGainLossKeepBalance(loc, gain_loss) ==
    IF gain_loss > 0
    THEN LET losses_to_use == IF loc.compensable_losses > 0
                              THEN Min(gain_loss, loc.compensable_losses) ELSE 0
         IN  [loc EXCEPT
                 !.compensable_losses_used = @ + losses_to_use,
                 !.month_gains = @ + (gain_loss - losses_to_use)]
    ELSE [loc EXCEPT !.month_losses = @ + Abs(gain_loss)]

\* what is done with the gain_loss a FIFO call returned
ApplyGainLoss(loc, gain_loss) ==
    IF gain_loss > 0
    THEN LET losses_to_use == IF loc.compensable_losses > 0
                              THEN Min(gain_loss, loc.compensable_losses) ELSE 0
         IN  [loc EXCEPT
                 !.compensable_losses = @ - losses_to_use,
                 !.compensable_losses_used = @ + losses_to_use,
                 !.month_gains = @ + (gain_loss - losses_to_use)]
    ELSE [loc EXCEPT !.month_losses = @ + Abs(gain_loss)]

\* variant of Exemption with a strict comparison against the threshold
ExemptionStrict(net_gains, month_sales_total) ==
    IF net_gains > 0 /\ month_sales_total < SWING_TRADE_EXEMPTION
    THEN [exempted_gains |-> net_gains, exempted_sales |-> month_sales_total,
          taxable_gains |-> 0]
    ELSE [exempted_gains |-> 0, exempted_sales |-> 0,
          taxable_gains |-> IF net_gains > 0 THEN net_gains ELSE 0]

\* "Apply monthly exemption for swing trades"
Exemption(net_gains, month_sales_total) ==
    IF net_gains > 0 /\ month_sales_total <= SWING_TRADE_EXEMPTION
    THEN [exempted_gains |-> net_gains, exempted_sales |-> month_sales_total,
          taxable_gains |-> 0]
    ELSE [exempted_gains |-> 0, exempted_sales |-> 0,
          taxable_gains |-> IF net_gains > 0 THEN net_gains ELSE 0]

\* the dict calculate_month_taxes returns
MonthResult(loc) ==
    LET net_gains == loc.month_gains - loc.month_losses
        ex == Exemption(net_gains, loc.month_sales_total)
    IN  [month |-> loc.month,
         gains |-> loc.month_gains,
         losses |-> loc.month_losses,
         net_gains |-> net_gains,
         sales_total |-> loc.month_sales_total,
         taxable_gains |-> ex.taxable_gains,
         day_trade_gains |-> loc.day_trade_gains,
         day_trade_losses |-> loc.day_trade_losses,
         irrf_paid |-> loc.irrf_paid,
         exempt |-> loc.month_sales_total <= MONTHLY_EXEMPTION,
         exempted_gains |-> ex.exempted_gains,
         exempted_sales |-> ex.exempted_sales,
         remaining_compensable_losses |-> loc.compensable_losses,
         remaining_day_trade_losses |-> loc.day_trade_losses,
         compensable_losses_used |-> loc.compensable_losses_used,
         day_trade_losses_used |-> loc.day_trade_losses_used]

----------------------------------------------------------------------------
(* TaxCalculator.calculate_taxes *)

\* yearly_summary as initialised (the year and the recommendation texts left out)
EmptySummary ==
    [total_gains |-> 0, total_losses |-> 0, net_gains |-> 0, tax_owed |-> 0,
     irrf_paid |-> 0, day_trade_gains |-> 0, day_trade_losses |-> 0,
     day_trade_tax |-> 0, monthly_breakdown |-> <<>>,
     compensable_losses |-> 0, day_trade_compensable_losses |-> 0,
     previous_year_losses_used |-> 0, previous_year_day_trade_losses_used |-> 0,
     total_exempted_gains |-> 0, total_exempted_sales |-> 0]

\* the body of the loop over the months, after calculate_month_taxes returned
AddMonth(ys, month_result) ==
    [ys EXCEPT
        !.monthly_breakdown = Append(@, month_result),
        !.total_gains = @ + month_result.gains,
        !.total_losses = @ + month_result.losses,
        !.day_trade_gains = @ + month_result.day_trade_gains,
        !.day_trade_losses = @ + month_result.day_trade_losses,
        !.irrf_paid = @ + month_result.irrf_paid,
        !.total_exempted_gains = @ + month_result.exempted_gains,
        !.total_exempted_sales = @ + month_result.exempted_sales,
        !.previous_year_losses_used = @ + month_result.compensable_losses_used,
        !.previous_year_day_trade_losses_used = @ + month_result.day_trade_losses_used]

\* variant of TotalTaxOwed without the floor at zero
TotalTaxOwedUnfloored(normal_tax, day_trade_tax, irrf_paid) ==
    normal_tax + day_trade_tax - irrf_paid

\* "Total tax owed is the sum of both types minus IRRF paid"
TotalTaxOwed(normal_tax, day_trade_tax, irrf_paid) ==
    Max(normal_tax + day_trade_tax - irrf_paid, 0)

\* variant of Finalize that carries the net result forward with its sign
FinalizeSigned(ys) ==
    LET normal_net_gains == ys.total_gains - ys.total_losses
        day_trade_net_gains == ys.day_trade_gains - ys.day_trade_losses
        normal_tax == IF normal_net_gains > 0 THEN normal_net_gains * TAX_RATE ELSE 0
        day_trade_tax == IF day_trade_net_gains > 0
                         THEN day_trade_net_gains * DAY_TRADE_TAX_RATE ELSE 0
    IN  [ys EXCEPT
            !.day_trade_tax = day_trade_tax,
            !.tax_owed = TotalTaxOwed(normal_tax, day_trade_tax, ys.irrf_paid),
            !.compensable_losses = 0 - normal_net_gains,
            !.day_trade_compensable_losses = 0 - day_trade_net_gains]

\* the lines after the loop: taxes and next year's compensable losses
Finalize(ys) ==
    LET normal_net_gains == ys.total_gains - ys.total_losses
        day_trade_net_gains == ys.day_trade_gains - ys.day_trade_losses
        normal_tax == IF normal_net_gains > 0 THEN normal_net_gains * TAX_RATE ELSE 0
        day_trade_tax == IF day_trade_net_gains > 0
                         THEN day_trade_net_gains * DAY_TRADE_TAX_RATE ELSE 0
    IN  [ys EXCEPT
            !.day_trade_tax = day_trade_tax,
            !.tax_owed = TotalTaxOwed(normal_tax, day_trade_tax, ys.irrf_paid),
            !.compensable_losses =
                IF normal_net_gains < 0 THEN Abs(normal_net_gains) ELSE 0,
            !.day_trade_compensable_losses =
                IF day_trade_net_gains < 0 THEN Abs(day_trade_net_gains) ELSE 0]

\* variant of Get that always answers with the default
GetDefault(d, key, default) == default

\* previous_year.get(key, Decimal('0.00'))
Get(d, key, default) == IF key \in DOMAIN d THEN d[key] ELSE default

----------------------------------------------------------------------------
(* Inputs *)

\* (price_usd, exchange_rate) of the transactions a request records: it buys at
\* 9995.00 (rate 1) and sells at 9990.00 (rate 1) or at 5000.00 (rate 2), which
\* is 10000.00 in home currency
BuyPoints  == { [price_usd |-> 999500, exchange_rate |-> 1] }
SellPoints == { [price_usd |-> 999000, exchange_rate |-> 1],
                [price_usd |-> 500000, exchange_rate |-> 2] }
PricePoints(type) == IF type = "buy" THEN BuyPoints ELSE SellPoints

\* the quantities a request trades
Quantities == {1, 2}

RequestTickers == {"PBR"}

\* a request lists its transactions in chronological order: the next one is
\* dated on the last recorded day, on the next day, or on the first of the next month
NextDates(l) ==
    IF l = <<>> THEN { [month |-> 1, day |-> 1] }
    ELSE LET d == l[Len(l)].date
         IN  { d, [month |-> d.month, day |-> d.day + 1],
               [month |-> d.month + 1, day |-> 1] }

RequestTxs(l) ==
    UNION { { Tx(k, ty, q, pp.price_usd, pp.exchange_rate, d.month, d.day, 0) :
                k \in RequestTickers, q \in Quantities,
                pp \in PricePoints(ty), d \in NextDates(l) } :
            ty \in {"buy", "sell"} }

NoPreviousYear == [k \in {} |-> 0]
PreviousYear(normal, day_trade) ==
    [compensable_losses |-> normal, day_trade_compensable_losses |-> day_trade]

\* the results of the previous year a request may meet
PreviousYears == { NoPreviousYear, PreviousYear(700, 300) }

\* ledgers already stored when the request arrives (the request adds nothing)
FifoLedger ==
    << Tx("PBR", "buy", 100, 1000, 1, 1, 1, 0),
       Tx("PBR", "buy", 50, 1200, 1, 1, 5, 0),
       Tx("PBR", "sell", 120, 1500, 1, 1, 10, 0) >>

OversoldLedger == << Tx("PBR", "sell", 50, 1000, 1, 1, 1, 0) >>

DayTradeLedger ==
    << Tx("PBR", "buy", 50, 1000, 1, 1, 1, 0),
       Tx("PBR", "buy", 100, 1000, 1, 1, 5, 0),
       Tx("PBR", "sell", 100, 1200, 1, 1, 5, 0) >>

\* January sells exactly 20000.00, February 20000.01 (the fee is part of the value)
BoundaryLedger ==
    << Tx("PBR", "buy", 2, 1999000, 1, 1, 1, 0),
       Tx("PBR", "sell", 1, 2000000, 1, 1, 2, 0),
       Tx("PBR", "sell", 1, 2000000, 1, 2, 1, 1) >>

CarryTaxableLedger ==
    << Tx("PBR", "buy", 100, 20000, 1, 1, 1, 0),
       Tx("PBR", "sell", 100, 21500, 1, 1, 2, 0),
       Tx("PBR", "buy", 1, 20000, 1, 2, 1, 0) >>

CarryExemptLedger ==
    << Tx("PBR", "buy", 100, 1000, 1, 1, 1, 0),
       Tx("PBR", "sell", 100, 2500, 1, 1, 2, 0),
       Tx("PBR", "buy", 1, 1000, 1, 2, 1, 0) >>

TwoTickerLedger ==
    << Tx("VALE", "buy", 100, 1000, 1, 1, 1, 0),
       Tx("PBR", "buy", 100, 1000, 1, 1, 1, 0),
       Tx("VALE", "buy", 40, 1200, 1, 1, 2, 0),
       Tx("PBR", "sell", 60, 1200, 1, 1, 5, 0),
       Tx("VALE", "sell", 120, 900, 1, 2, 3, 0),
       Tx("VALE", "buy", 30, 1000, 1, 2, 4, 0),
       Tx("VALE", "sell", 10, 1100, 1, 2, 4, 0),
       Tx("PBR", "buy", 10, 1000, 1, 2, 4, 0),
       Tx("PBR", "sell", 10, 1300, 1, 2, 4, 0) >>

\* January: a swing sale of exactly 20000.00 with a gain, and a day trade of one
\* share whose sell carries a brokerage fee of 0.01
DayTradeFeeLedger ==
    << Tx("PBR", "buy", 2, 1999000, 1, 1, 1, 0),
       Tx("PBR", "sell", 1, 2000000, 1, 1, 2, 0),
       Tx("PBR", "buy", 1, 10000, 1, 1, 3, 0),
       Tx("PBR", "sell", 1, 10000, 1, 1, 3, 1) >>

\* a swing-trade loss and a day-trade loss
LossLedger ==
    << Tx("PBR", "buy", 10, 1000, 1, 1, 1, 0),
       Tx("PBR", "sell", 5, 900, 1, 1, 2, 0),
       Tx("PBR", "buy", 5, 1000, 1, 2, 3, 0),
       Tx("PBR", "sell", 5, 800, 1, 2, 3, 0) >>

Stored ==
    { [ledger |-> l, previous_year |-> py] :
        l \in { FifoLedger, OversoldLedger, DayTradeLedger, BoundaryLedger,
                TwoTickerLedger, DayTradeFeeLedger, LossLedger },
        py \in PreviousYears }
    \cup
    { [ledger |-> l, previous_year |-> PreviousYear(100000, 0)] :
        l \in { CarryTaxableLedger, CarryExemptLedger } }

----------------------------------------------------------------------------
(* The state machine *)

NoMonth == MonthLocals(0, 0, 0)
NoCursor == [month |-> 0, day |-> 0, tx |-> 0]
NoHoldings == [k \in Tickers |-> <<>>]

\* ADRQuote.objects.filter(ticker=...).first() is None
NoQuote == 0

\* the empty dict of NotificationService.__init__
NoEntries == [key \in {} |-> <<0, 0>>]

\* f"{user_id}:{channel}" for the users and channels notified
Channels == {"email", "webhook"}
NotificationKeys == {1} \X Channels

\* no API request under way and the day's counter at zero
LimiterIdle ==
    /\ daily_requests = 0
    /\ requests = [r \in 1..MaxRequests |-> [pc |-> "idle", daily_requests |-> 0]]

\* no alert, no quote, check_price_alerts not running
AlertingIdle ==
    /\ alerts = <<>>
    /\ quotes = [k \in Tickers |-> NoQuote]
    /\ task = [pc |-> "idle", active_alerts |-> <<>>, i |-> 0, runs |-> 0]
    /\ checked = <<>>

\* nothing notified yet
NotifyingIdle ==
    /\ rate_limiter = NoEntries
    /\ sent = [key \in NotificationKeys |-> <<>>]
    /\ now = 0
    /\ alert_calls = 0

ServiceIdle == LimiterIdle /\ AlertingIdle /\ NotifyingIdle

Idle ==
    /\ transactions = [cached |-> FALSE, rows |-> <<>>]
    /\ compensable_losses = 0
    /\ day_trade_compensable_losses = 0
    /\ holdings = NoHoldings
    /\ remaining = [normal |-> 0, day_trade |-> 0]
    /\ yearly_summary = EmptySummary
    /\ cursor = NoCursor
    /\ month = NoMonth
    /\ fifo_log = <<>>
    /\ day_log = <<>>
    /\ results = <<>>
    /\ depth = 0
    /\ chain_log = <<>>
    /\ invoked = <<>>
    /\ ServiceIdle

Init ==
    /\ \/ /\ pc = "request"
          /\ ledger = <<>>
          /\ previous_year \in PreviousYears
       \/ /\ pc = "recorded"
          /\ \E s \in Stored : ledger = s.ledger /\ previous_year = s.previous_year
    /\ previous_year_ledger = <<>>
    /\ Idle

\* views.tax_calculator: Transaction.objects.create(user=request.user, **transaction_data)
RecordTransaction ==
    /\ pc = "request"
    /\ Len(ledger) < MaxTx
    /\ \E t \in RequestTxs(ledger) : ledger' = Append(ledger, t)
    /\ UNCHANGED <<previous_year, pc, transactions, compensable_losses,
                   day_trade_compensable_losses, holdings, remaining,
                   yearly_summary, cursor, month, fifo_log, day_log, results,
                   previous_year_ledger, depth, chain_log, invoked, surroundings>>

\* TaxCalculator.__init__ as one step, get_previous_year_losses() returning
\* previous_year: the queryset is built but not evaluated; the two balances are
\* read from the previous year's result
Construct ==
    /\ pc \in {"request", "recorded"}
    /\ pc' = "constructed"
    /\ depth' = 1
    /\ invoked' = ledger
    /\ transactions' = [cached |-> FALSE, rows |-> <<>>]
    /\ compensable_losses' = Get(previous_year, "compensable_losses", 0)
    /\ day_trade_compensable_losses' =
           Get(previous_year, "day_trade_compensable_losses", 0)
    /\ UNCHANGED <<ledger, previous_year, holdings, remaining, yearly_summary,
                   cursor, month, fifo_log, day_log, results,
                   previous_year_ledger, chain_log, surroundings>>

\* the call calculate_month_taxes(transactions, holdings, month, remaining_...)
\* for the i-th month of txs binds its parameters; after the last month the loop ends
EnterMonth(txs, i, rem) ==
    IF i <= Len(MonthKeys(txs))
    THEN /\ month' = MonthLocals(MonthKeys(txs)[i], rem.normal, rem.day_trade)
         /\ cursor' = [month |-> i, day |-> 1, tx |-> 0]
         /\ pc' = "day"
    ELSE /\ month' = month
         /\ cursor' = cursor
         /\ pc' = "finish"

\* variant of YearRows whose filter lets the rows of the year before through
YearRowsWithEarlier(d) ==
    IF d <= 1 THEN previous_year_ledger \o ledger
    ELSE IF d = 2 THEN previous_year_ledger ELSE <<>>

\* Transaction.objects.filter(user=user, date__year=year) for the calculator at
\* nesting d: the requested year, the year before, or an older year (no rows)
YearRows(d) ==
    IF d <= 1 THEN ledger ELSE IF d = 2 THEN previous_year_ledger ELSE <<>>

\* calculate_taxes up to the first month.  Iterating self.transactions evaluates
\* the queryset on first use and reuses the fetched objects afterwards.
Begin ==
    LET rows == IF transactions.cached THEN transactions.rows ELSE YearRows(depth)
        rem  == [normal |-> compensable_losses,
                 day_trade |-> day_trade_compensable_losses]
    IN  /\ transactions' = [cached |-> TRUE, rows |-> rows]
        /\ yearly_summary' = EmptySummary
        /\ holdings' = NoHoldings
        /\ remaining' = rem
        /\ fifo_log' = <<>>
        /\ day_log' = <<>>
        /\ EnterMonth(rows, 1, rem)
        /\ UNCHANGED <<ledger, previous_year, compensable_losses,
                       day_trade_compensable_losses, results,
                       previous_year_ledger, depth, chain_log, invoked, surroundings>>

CalculateTaxes ==
    /\ pc = "constructed"
    /\ Begin

\* the month, the day and the transaction the loops stand at
CurMonth == MonthKeys(transactions.rows)[cursor.month]
CurDays == DayKeys(transactions.rows, CurMonth)
CurDay == CurDays[cursor.day]
CurDayTxs == DayTxs(transactions.rows, CurMonth, CurDay)
CurIndex == CurDayTxs[cursor.tx]
CurTx == transactions.rows[CurIndex]

\* the head of the loop over the days: process_day_trades and the day-trade
\* carryforward
ProcessDay ==
    /\ pc = "day"
    /\ LET r == process_day_trades(transactions.rows, CurDayTxs)
       IN  /\ transactions' = [transactions EXCEPT !.rows = r.txs]
           /\ month' = ApplyDayTradeResult(month, r)
           /\ day_log' = Append(day_log,
                  [month |-> cursor.month, date |-> CurDay, indices |-> CurDayTxs,
                   gains |-> r.gains, losses |-> r.losses,
                   holdings_before |-> holdings,
                   locals_before |-> month, locals_after |-> month'])
    /\ cursor' = [cursor EXCEPT !.tx = 1]
    /\ pc' = "tx"
    /\ UNCHANGED <<ledger, previous_year, compensable_losses,
                   day_trade_compensable_losses, holdings, remaining,
                   yearly_summary, fifo_log, results,
                   previous_year_ledger, depth, chain_log, invoked, surroundings>>

\* one pass of "for transaction in day_transactions"
ProcessTransaction ==
    /\ pc = "tx"
    /\ LET t == CurTx
           sold == t.transaction_type = "sell"
           fifo == calculate_fifo_gain_loss(t, holdings[t.ticker])
       IN  /\ month' =
                 IF sold
                 THEN IF ~t.is_day_trade
                      THEN ApplyGainLoss(AccumulateSale(month, t), fifo.gain_loss)
                      ELSE AccumulateSale(month, t)
                 ELSE month
           /\ holdings' =
                 IF sold
                 THEN IF ~t.is_day_trade
                      THEN [holdings EXCEPT ![t.ticker] = fifo.holdings]
                      ELSE holdings
                 ELSE IF t.transaction_type = "buy" /\ ~t.is_day_trade
                      THEN [holdings EXCEPT ![t.ticker] = Append(@, Lot(t))]
                      ELSE holdings
           /\ fifo_log' =
                 IF sold /\ ~t.is_day_trade
                 THEN Append(fifo_log,
                        [month |-> cursor.month, index |-> CurIndex, sell |-> t,
                         before |-> holdings[t.ticker], after |-> fifo.holdings,
                         gain_loss |-> fifo.gain_loss,
                         unfilled |-> fifo.remaining_quantity,
                         locals_before |-> month, locals_after |-> month'])
                 ELSE fifo_log
    /\ IF cursor.tx < Len(CurDayTxs)
       THEN /\ cursor' = [cursor EXCEPT !.tx = @ + 1]
            /\ pc' = "tx"
       ELSE IF cursor.day < Len(CurDays)
       THEN /\ cursor' = [cursor EXCEPT !.day = @ + 1, !.tx = 0]
            /\ pc' = "day"
       ELSE /\ cursor' = cursor
            /\ pc' = "month_end"
    /\ UNCHANGED <<ledger, previous_year, transactions, compensable_losses,
                   day_trade_compensable_losses, remaining, yearly_summary,
                   day_log, results,
                   previous_year_ledger, depth, chain_log, invoked, surroundings>>

\* calculate_month_taxes returns; the body of the loop over the months, up to
\* the call for the next month
EndMonth ==
    /\ pc = "month_end"
    /\ LET month_result == MonthResult(month)
           rem == [normal |-> month_result.remaining_compensable_losses,
                   day_trade |-> month_result.remaining_day_trade_losses]
       IN  /\ yearly_summary' = AddMonth(yearly_summary, month_result)
           /\ remaining' = rem
           /\ EnterMonth(transactions.rows, cursor.month + 1, rem)
    /\ UNCHANGED <<ledger, previous_year, transactions, compensable_losses,
                   day_trade_compensable_losses, holdings, fifo_log,
                   day_log, results,
                   previous_year_ledger, depth, chain_log, invoked, surroundings>>

\* the lines after the loop, and the return
Finish ==
    /\ pc = "finish"
    /\ yearly_summary' = Finalize(yearly_summary)
    /\ results' = Append(results, yearly_summary')
    /\ pc' = "done"
    /\ UNCHANGED <<ledger, previous_year, transactions, compensable_losses,
                   day_trade_compensable_losses, holdings, remaining, cursor,
                   month, fifo_log, day_log,
                   previous_year_ledger, depth, chain_log, invoked, surroundings>>

Next ==
    \/ RecordTransaction
    \/ Construct
    \/ CalculateTaxes
    \/ ProcessDay
    \/ ProcessTransaction
    \/ EndMonth
    \/ Finish

Spec == Init /\ [][Next]_vars

\* calculate_taxes() is called a second time on the same calculator
Recalculate ==
    /\ pc = "done"
    /\ Len(results) < 2
    /\ Begin

NextRerun == Next \/ Recalculate

SpecRerun == Init /\ [][NextRerun]_vars

----------------------------------------------------------------------------
(* The chain of calculators.  TaxCalculator.__init__ calls                      *)
(* get_previous_year_losses, which makes a TaxCalculator for the year before   *)
(* and asks it for calculate_taxes(); that constructor does the same for the   *)
(* year before it.  Nothing in the code ends the descent: it ends when the     *)
(* interpreter refuses a further nested call (RecursionError), which the       *)
(* handler "except Exception: return {}" of the caller turns into an empty     *)
(* result.                                                                     *)

\* ledgers of the requested year and of the year before, as stored
YearLedgers == { <<>>, FifoLedger, DayTradeLedger, OversoldLedger }
PriorLedgers == { <<>>, LossLedger, FifoLedger }

InitYears ==
    /\ pc = "request"
    /\ ledger \in YearLedgers
    /\ previous_year_ledger \in PriorLedgers
    /\ previous_year = NoPreviousYear
    /\ Idle

\* views.tax_calculator: Transaction.objects.create for a transaction of the
\* request whose date lies in the year before the requested one; the request
\* serializer compares no date with the year
RecordPreviousYear ==
    /\ pc = "request"
    /\ depth = 0
    /\ Len(previous_year_ledger) < MaxEarlier
    /\ \E t \in RequestTxs(previous_year_ledger) :
          previous_year_ledger' = Append(previous_year_ledger, t)
    /\ UNCHANGED <<ledger, previous_year, pc, transactions, compensable_losses,
                   day_trade_compensable_losses, holdings, remaining,
                   yearly_summary, cursor, month, fifo_log, day_log, results,
                   depth, chain_log, invoked, surroundings>>

\* TaxCalculator(user, year) is called, by the view or by
\* get_previous_year_losses of the calculator at the current depth; __init__
\* builds its queryset and goes on to get_previous_year_losses
NewCalculator ==
    /\ \/ pc = "request" /\ depth = 0
       \/ pc = "init" /\ depth < RecursionLimit
    /\ depth' = depth + 1
    /\ pc' = "init"
    /\ transactions' = [cached |-> FALSE, rows |-> <<>>]
    /\ invoked' = IF depth = 0 THEN ledger ELSE invoked
    /\ UNCHANGED <<ledger, previous_year, compensable_losses,
                   day_trade_compensable_losses, holdings, remaining,
                   yearly_summary, cursor, month, fifo_log, day_log, results,
                   previous_year_ledger, chain_log, surroundings>>

\* what __init__ does with the dict get_previous_year_losses returned
Constructed(returned) ==
    /\ previous_year' = returned
    /\ compensable_losses' = Get(returned, "compensable_losses", 0)
    /\ day_trade_compensable_losses' =
           Get(returned, "day_trade_compensable_losses", 0)
    /\ transactions' = [cached |-> FALSE, rows |-> <<>>]
    /\ results' = <<>>
    /\ pc' = "constructed"

\* the nested TaxCalculator(...) call raises RecursionError; "except Exception"
\* of get_previous_year_losses returns {} and __init__ completes
RecursionFault ==
    /\ pc = "init"
    /\ depth = RecursionLimit
    /\ Constructed(NoPreviousYear)
    /\ chain_log' = Append(chain_log,
           [depth |-> depth + 1, outcome |-> "error", summary |-> NoPreviousYear])
    /\ UNCHANGED <<ledger, holdings, remaining, yearly_summary, cursor, month,
                   fifo_log, day_log, previous_year_ledger, depth, invoked, surroundings>>

\* previous_calculator.calculate_taxes() raises (calculate_taxes logs and
\* re-raises any exception); "except Exception" of the caller's
\* get_previous_year_losses returns {} and the caller's __init__ completes
CalculationFault ==
    /\ pc = "constructed"
    /\ depth > 1
    /\ Constructed(NoPreviousYear)
    /\ depth' = depth - 1
    /\ chain_log' = Append(chain_log,
           [depth |-> depth, outcome |-> "error", summary |-> NoPreviousYear])
    /\ UNCHANGED <<ledger, holdings, remaining, yearly_summary, cursor, month,
                   fifo_log, day_log, previous_year_ledger, invoked, surroundings>>

\* previous_calculator.calculate_taxes() returned its summary;
\* get_previous_year_losses returns it and the caller's __init__ completes
ReturnSummary ==
    /\ pc = "done"
    /\ depth > 1
    /\ Constructed(results[Len(results)])
    /\ depth' = depth - 1
    /\ chain_log' = Append(chain_log,
           [depth |-> depth, outcome |-> "summary", summary |-> results[Len(results)]])
    /\ UNCHANGED <<ledger, holdings, remaining, yearly_summary, cursor, month,
                   fifo_log, day_log, previous_year_ledger, invoked, surroundings>>

NextYears ==
    \/ RecordPreviousYear
    \/ NewCalculator
    \/ RecursionFault
    \/ CalculationFault
    \/ ReturnSummary
    \/ CalculateTaxes
    \/ ProcessDay
    \/ ProcessTransaction
    \/ EndMonth
    \/ Finish

SpecYears == InitYears /\ [][NextYears]_vars

----------------------------------------------------------------------------
(* The same request is posted a second time after the first one was answered.  *)
(* The ledger starts empty, so the transactions of the request are the rows    *)
(* the first calculator was made on (invoked); results keeps the first         *)
(* response next to the second.                                                *)

\* the row created for t in a ledger kept ORDER BY date, created_at: after every
\* row dated on the same day or earlier
InsertByDate(l, t) ==
    LET n == Cardinality({ i \in DOMAIN l : DateLeq(l[i].date, t.date) })
    IN  SubSeq(l, 1, n) \o <<t>> \o SubSeq(l, n + 1, Len(l))

\* the loop "for transaction_data in transactions_data: Transaction.objects.create"
RECURSIVE CreateAll(_, _)
CreateAll(l, transactions_data) ==
    IF transactions_data = <<>> THEN l
    ELSE CreateAll(InsertByDate(l, Head(transactions_data)), Tail(transactions_data))

InitRepeat ==
    /\ pc = "request"
    /\ ledger = <<>>
    /\ previous_year \in PreviousYears
    /\ previous_year_ledger = <<>>
    /\ Idle

\* views.tax_calculator for the second post, up to calculator.calculate_taxes():
\* the create loop and TaxCalculator(request.user, year)
RepeatRequest ==
    /\ pc = "done"
    /\ Len(results) = 1
    /\ ledger' = CreateAll(ledger, invoked)
    /\ invoked' = ledger'
    /\ pc' = "constructed"
    /\ transactions' = [cached |-> FALSE, rows |-> <<>>]
    /\ compensable_losses' = Get(previous_year, "compensable_losses", 0)
    /\ day_trade_compensable_losses' =
           Get(previous_year, "day_trade_compensable_losses", 0)
    /\ UNCHANGED <<previous_year, holdings, remaining, yearly_summary, cursor,
                   month, fifo_log, day_log, results, previous_year_ledger,
                   depth, chain_log, surroundings>>

NextRepeat ==
    \/ RecordTransaction
    \/ Construct
    \/ CalculateTaxes
    \/ ProcessDay
    \/ ProcessTransaction
    \/ EndMonth
    \/ Finish
    \/ RepeatRequest

SpecRepeat == InitRepeat /\ [][NextRepeat]_vars

----------------------------------------------------------------------------
(* A second request of the same user records a transaction while the first     *)
(* one is between TaxCalculator(request.user, year) and the end of             *)
(* calculate_taxes().                                                           *)

\* what the other request records: a buy or a sell of one share, dated and
\* priced as the last transaction recorded
ConcurrentTxs(l) ==
    IF l = <<>>
    THEN { t \in RequestTxs(l) : t.quantity = 1 }
    ELSE LET last == l[Len(l)]
         IN  { Tx(last.ticker, ty, 1, last.price_usd, last.exchange_rate,
                  last.date.month, last.date.day, 0) : ty \in {"buy", "sell"} }

ConcurrentRecord ==
    /\ pc \in {"constructed", "day", "tx", "month_end", "finish"}
    /\ Len(ledger) = Len(invoked)
    /\ \E t \in ConcurrentTxs(ledger) : ledger' = Append(ledger, t)
    /\ UNCHANGED <<previous_year, pc, transactions, compensable_losses,
                   day_trade_compensable_losses, holdings, remaining,
                   yearly_summary, cursor, month, fifo_log, day_log, results,
                   previous_year_ledger, depth, chain_log, invoked, surroundings>>

NextConcurrent == Next \/ ConcurrentRecord

SpecConcurrent == Init /\ [][NextConcurrent]_vars

----------------------------------------------------------------------------
(* RateLimitMiddleware, User.can_make_request / increment_requests and         *)
(* APIKeyAuthentication.authenticate: API requests of one user whose plan has  *)
(* the daily limit DailyLimit, handled by concurrent workers between two       *)
(* resets of the counter (less than a day after last_request_reset, so the     *)
(* reset branch of can_make_request is not taken).                             *)

Requests == 1..MaxRequests

\* nothing of the tax engine is running
EngineIdle ==
    /\ pc = "request"
    /\ ledger = <<>>
    /\ previous_year = NoPreviousYear
    /\ previous_year_ledger = <<>>
    /\ Idle

\* User.can_make_request on a User object whose daily_requests field is n
can_make_request(n) == n < DailyLimit

\* process_request: get_user_from_request reads the user's row
Load(r) ==
    /\ requests[r].pc = "idle"
    /\ requests' = [requests EXCEPT ![r] =
                       [pc |-> "loaded", daily_requests |-> daily_requests]]
    /\ UNCHANGED <<daily_requests, engine, alerting, notifying>>

\* process_request: "if not user.can_make_request()" answers 429, otherwise the
\* object is kept in request._api_user and the request goes on to the view
Check(r) ==
    /\ requests[r].pc = "loaded"
    /\ requests' = [requests EXCEPT ![r].pc =
                       IF can_make_request(requests[r].daily_requests)
                       THEN "passed" ELSE "rejected"]
    /\ UNCHANGED <<daily_requests, engine, alerting, notifying>>

\* APIKeyAuthentication.authenticate: User.objects.get reads the row again and
\* can_make_request decides between (user, None) and AuthenticationFailed
Authenticate(r) ==
    /\ requests[r].pc = "passed"
    /\ requests' = [requests EXCEPT ![r].pc =
                       IF can_make_request(daily_requests) THEN "served" ELSE "denied"]
    /\ UNCHANGED <<daily_requests, engine, alerting, notifying>>

\* process_response: user.increment_requests() on the object of process_request:
\* self.daily_requests += 1; self.save(update_fields=['daily_requests'])
Respond(r) ==
    /\ requests[r].pc \in {"served", "denied"}
    /\ daily_requests' = requests[r].daily_requests + 1
    /\ requests' = [requests EXCEPT
                       ![r].pc = IF @ = "served" THEN "answered" ELSE "refused",
                       ![r].daily_requests = @ + 1]
    /\ UNCHANGED <<engine, alerting, notifying>>

InitLimiter == EngineIdle

NextLimiter ==
    \/ \E r \in Requests : Load(r)
    \/ \E r \in Requests : Check(r)
    \/ \E r \in Requests : Authenticate(r)
    \/ \E r \in Requests : Respond(r)

SpecLimiter == InitLimiter /\ [][NextLimiter]_vars

----------------------------------------------------------------------------
(* tasks.check_price_alerts over the PriceAlert rows and the latest quotes.    *)

ConditionTypes == {"above", "below", "change_percent"}

\* price_brl of the quotes update_adr_quotes stores, and the target of the alerts
QuotePrices == {9000, 10000}
TargetValue == 10000

\* PriceAlertViewSet.post: serializer.save(user=request.user)
CreateAlert ==
    /\ Len(alerts) < MaxAlerts
    /\ \E k \in Tickers, c \in ConditionTypes :
          alerts' = Append(alerts,
              [ticker |-> k, condition_type |-> c, target_value |-> TargetValue,
               notification_channel |-> "email", is_active |-> TRUE,
               triggered_at |-> 0])
    /\ UNCHANGED <<quotes, task, checked, engine, limiter, notifying>>

\* update_adr_quotes: ADRQuote.objects.create, the new latest quote of a ticker
UpdateQuote ==
    /\ \E k \in Tickers, p \in QuotePrices :
          /\ quotes[k] # p
          /\ quotes' = [quotes EXCEPT ![k] = p]
    /\ UNCHANGED <<alerts, task, checked, engine, limiter, notifying>>

\* check_price_alerts starts: PriceAlert.objects.filter(is_active=True), evaluated
\* by the for statement
StartRun ==
    /\ task.pc = "idle"
    /\ task.runs < MaxRuns
    /\ task' = [task EXCEPT
                   !.pc = "loop",
                   !.active_alerts = SelectSeq([a \in 1..Len(alerts) |-> a],
                                               LAMBDA a : alerts[a].is_active),
                   !.i = 1]
    /\ UNCHANGED <<alerts, quotes, checked, engine, limiter, notifying>>

\* one pass of the loop body.  Without a quote the body logs and continues.
\* With one it evaluates self._check_alert_condition(...): self is the bound
\* task, and the def of that name (tasks.py:124) is a statement of the body of
\* check_price_alerts placed behind its return and raise, so the attribute
\* lookup raises AttributeError, which "except Exception" (109) logs.  No
\* statement behind the lookup runs.
VisitAlert ==
    /\ task.pc = "loop"
    /\ task.i <= Len(task.active_alerts)
    /\ LET alert == task.active_alerts[task.i]
           latest_quote == quotes[alerts[alert].ticker]
       IN  checked' = Append(checked,
               [run |-> task.runs + 1, alert |-> alert, price |-> latest_quote,
                outcome |-> IF latest_quote = NoQuote THEN "no_quote" ELSE "error"])
    /\ task' = [task EXCEPT !.i = @ + 1]
    /\ UNCHANGED <<alerts, quotes, engine, limiter, notifying>>

\* the loop is over: the task logs and returns its counts
EndRun ==
    /\ task.pc = "loop"
    /\ task.i > Len(task.active_alerts)
    /\ task' = [task EXCEPT !.pc = "idle", !.runs = @ + 1]
    /\ UNCHANGED <<alerts, quotes, checked, engine, limiter, notifying>>

InitAlerts == EngineIdle

NextAlerts ==
    \/ CreateAlert
    \/ UpdateQuote
    \/ StartRun
    \/ VisitAlert
    \/ EndRun

SpecAlerts == InitAlerts /\ [][NextAlerts]_vars

----------------------------------------------------------------------------
(* NotificationService.send_price_alert and _check_rate_limit.                 *)

\* _check_rate_limit(user_id, channel) on the dict entries at current_time:
\* what it returns and the dict it leaves
check_rate_limit(entries, key, current_time) ==
    IF key \in DOMAIN entries
    THEN LET count == entries[key][1]
             last_reset == entries[key][2]
         IN  IF current_time - last_reset > HourSeconds
             THEN [ok |-> TRUE,
                   rate_limiter |-> [entries EXCEPT ![key] = <<1, current_time>>]]
             ELSE IF count < max_per_hour
             THEN [ok |-> TRUE,
                   rate_limiter |-> [entries EXCEPT ![key] = <<count + 1, last_reset>>]]
             ELSE [ok |-> FALSE, rate_limiter |-> entries]
    ELSE [ok |-> TRUE,
          rate_limiter |-> [k \in DOMAIN entries \cup {key} |->
                               IF k = key THEN <<1, current_time>> ELSE entries[k]]]

\* send_price_alert(alert, current_price) for an alert of the user and channel
\* of key: service = NotificationService() starts with an empty dict; delivered
\* is what the channel's _send_*_alert returns (False also stands for an
\* exception, which send_price_alert turns into False)
SendPriceAlert ==
    /\ alert_calls < MaxCalls
    /\ \E key \in NotificationKeys, delivered \in BOOLEAN :
          LET service == [rate_limiter |-> NoEntries]
              limit == check_rate_limit(service.rate_limiter, key, now)
          IN  /\ rate_limiter' = limit.rate_limiter
              /\ sent' = IF limit.ok /\ delivered
                         THEN [sent EXCEPT ![key] = Append(@, now)]
                         ELSE sent
    /\ alert_calls' = alert_calls + 1
    /\ UNCHANGED <<now, engine, limiter, alerting>>

\* half an hour passes
Tick ==
    /\ now < MaxTicks * (HourSeconds \div 2)
    /\ now' = now + (HourSeconds \div 2)
    /\ UNCHANGED <<rate_limiter, sent, alert_calls, engine, limiter, alerting>>

InitNotify == EngineIdle

NextNotify ==
    \/ SendPriceAlert
    \/ Tick

SpecNotify == InitNotify /\ [][NextNotify]_vars

----------------------------------------------------------------------------
(* Vocabulary of the properties *)

\* total quantity and total home-currency cost of a list of lots
RECURSIVE LotsQty(_)
LotsQty(lots) == IF lots = <<>> THEN 0 ELSE Head(lots).quantity + LotsQty(Tail(lots))

RECURSIVE LotsCost(_)
LotsCost(lots) ==
    IF lots = <<>> THEN 0
    ELSE Head(lots).quantity * Head(lots).price * Head(lots).exchange_rate
         + LotsCost(Tail(lots))

Last(s) == s[Len(s)]

\* the day logged last has just been completed and its month is still open
EndOfDay ==
    /\ day_log # <<>>
    /\ pc = "month_end" \/ (pc = "day" /\ cursor.day > 1)

\* quantity of ticker k recorded in the ledger with the given type on the
\* transactions at the indices idxs
RECURSIVE Recorded(_, _, _)
Recorded(idxs, k, type) ==
    IF idxs = <<>> THEN 0
    ELSE (IF ledger[Head(idxs)].ticker = k /\ ledger[Head(idxs)].transaction_type = type
          THEN ledger[Head(idxs)].quantity ELSE 0)
         + Recorded(Tail(idxs), k, type)

\* ticker k was bought and sold in equal quantity on the day of the log entry e
Balanced(e, k) ==
    /\ Recorded(e.indices, k, "buy") > 0
    /\ Recorded(e.indices, k, "buy") = Recorded(e.indices, k, "sell")

----------------------------------------------------------------------------
(* C1  FIFO ordering.  Every call of calculate_fifo_gain_loss for a sell whose  *)
(* quantity q does not exceed the open quantity of its ticker removes a prefix  *)
(* of the lots entirely, leaves the next lot at the head reduced by what was    *)
(* used of it (or removes it too when it was used up), changes no later lot,    *)
(* and returns sale value minus the cost of exactly the consumed quantities.    *)
(* For buys 100@10.00 and 50@12.00 and a sell of 120 the cost basis is          *)
(* 100*10.00 + 20*12.00 and the one lot left is 30@12.00.                       *)

FifoOrdered(e) ==
    LET q == e.sell.quantity
        k == Len(e.before) - Len(e.after)
        u == q - LotsQty(SubSeq(e.before, 1, k))
    IN  /\ k >= 0
        /\ u >= 0
        /\ \A j \in 2..Len(e.after) : e.after[j] = e.before[k + j]
        /\ IF u = 0
           THEN e.after = SubSeq(e.before, k + 1, Len(e.before))
           ELSE /\ e.after # <<>>
                /\ e.after[1].quantity > 0
                /\ e.after[1] = [e.before[k + 1] EXCEPT !.quantity = @ - u]
        /\ e.gain_loss = q * e.sell.price_usd * e.sell.exchange_rate
                         - (LotsCost(e.before) - LotsCost(e.after))

C1_FifoOrdering ==
    /\ \A i \in DOMAIN fifo_log :
          fifo_log[i].sell.quantity <= LotsQty(fifo_log[i].before)
              => FifoOrdered(fifo_log[i])
    /\ (ledger = FifoLedger /\ pc = "done") =>
          /\ Len(fifo_log) = 1
          /\ fifo_log[1].gain_loss = 120 * 1500 - (100 * 1000 + 20 * 1200)
          /\ holdings["PBR"] = << [Lot(FifoLedger[2]) EXCEPT !.quantity = 30] >>

\* a sell that used up one lot and a part of the next
C1_Witness ==
    /\ ledger = FifoLedger
    /\ pc = "done"
    /\ fifo_log # <<>>
    /\ Len(fifo_log[1].before) = 2
    /\ Len(fifo_log[1].after) = 1

(* C2  Oversold detection, as claimed: no summary is returned by a run in which *)
(* a sell asked calculate_fifo_gain_loss for more than the inventory held.      *)
C2_OversoldRaises ==
    pc = "done" => \A i \in DOMAIN fifo_log : fifo_log[i].unfilled = 0

(* C3  Day-trade isolation.  At the end of a day on which a ticker was bought   *)
(* and sold in equal quantity, the ticker's lots are those of the start of the  *)
(* day, no FIFO call was made for a transaction of the ticker on that day, and  *)
(* when every ticker traded that day was balanced the month's normal-trade      *)
(* gains and losses are what they were at the start of the day.                 *)
C3_DayTradeIsolation ==
    EndOfDay =>
        LET e == Last(day_log)
            traded == { ledger[e.indices[j]].ticker : j \in DOMAIN e.indices }
        IN  /\ \A k \in traded :
                  Balanced(e, k) =>
                      /\ holdings[k] = e.holdings_before[k]
                      /\ \A i \in DOMAIN fifo_log :
                            ~ (/\ fifo_log[i].sell.ticker = k
                               /\ \E j \in DOMAIN e.indices :
                                     e.indices[j] = fifo_log[i].index)
            /\ (\A k \in traded : Balanced(e, k)) =>
                  /\ month.month_gains = e.locals_before.month_gains
                  /\ month.month_losses = e.locals_before.month_losses

\* 100 bought and 100 sold on a day before which a lot of 50 was open
C3_Witness ==
    /\ ledger = DayTradeLedger
    /\ EndOfDay
    /\ Len(day_log) = 2
    /\ Balanced(Last(day_log), "PBR")
    /\ holdings["PBR"] # <<>>
    /\ Last(day_log).gains > 0

(* C4  Monthly exemption boundary.  In every month result: with a positive net  *)
(* gain and sales of at most 20000.00 the whole net gain is exempted and none   *)
(* taxable; with a positive net gain and sales above 20000.00 the whole net     *)
(* gain is taxable and none exempted; with a net gain <= 0 both are 0.          *)
ExemptionRule(r) ==
    /\ r.net_gains = r.gains - r.losses
    /\ (r.net_gains > 0 /\ r.sales_total <= 2000000) =>
          (r.exempted_gains = r.net_gains /\ r.taxable_gains = 0)
    /\ (r.net_gains > 0 /\ r.sales_total > 2000000) =>
          (r.taxable_gains = r.net_gains /\ r.exempted_gains = 0)
    /\ r.net_gains <= 0 => (r.taxable_gains = 0 /\ r.exempted_gains = 0)

C4_ExemptionBoundary ==
    \A i \in DOMAIN yearly_summary.monthly_breakdown :
        ExemptionRule(yearly_summary.monthly_breakdown[i])

\* one month exactly at the threshold and one a cent above it, both with a gain
C4_Witness ==
    /\ pc = "done"
    /\ Len(yearly_summary.monthly_breakdown) = 2
    /\ yearly_summary.monthly_breakdown[1].sales_total = 2000000
    /\ yearly_summary.monthly_breakdown[1].exempted_gains > 0
    /\ yearly_summary.monthly_breakdown[2].sales_total = 2000001
    /\ yearly_summary.monthly_breakdown[2].taxable_gains > 0

(* C5  Normal-trade loss carryforward.  Each FIFO call that returns a gain     *)
(* g > 0 adds g - min(g, balance) to the month's gains and takes min(g,         *)
(* balance) off the balance; the balance a FIFO call meets is the one the       *)
(* previous call of the month left, or the one the month started with; a month  *)
(* starts with the balance the month before ended with, the first month with    *)
(* the balance carried into the year.                                           *)

\* the normal-trade balance month i of the current run started with
StartBalance(i) ==
    IF i = 1 THEN compensable_losses
    ELSE yearly_summary.monthly_breakdown[i - 1].remaining_compensable_losses

FifoCallsOf(i) == SelectSeq(fifo_log, LAMBDA e : e.month = i)

CarryConsumed(e) ==
    LET g == e.gain_loss
        use == IF g > 0 THEN Min(g, e.locals_before.compensable_losses) ELSE 0
    IN  /\ e.locals_after.compensable_losses = e.locals_before.compensable_losses - use
        /\ e.locals_after.compensable_losses_used =
               e.locals_before.compensable_losses_used + use
        /\ g > 0 => e.locals_after.month_gains = e.locals_before.month_gains + g - use

CarryThreaded(i) ==
    LET calls == FifoCallsOf(i)
    IN  /\ \A j \in DOMAIN calls :
              calls[j].locals_before.compensable_losses =
                  IF j = 1 THEN StartBalance(i)
                  ELSE calls[j - 1].locals_after.compensable_losses
        /\ i <= Len(yearly_summary.monthly_breakdown) =>
              yearly_summary.monthly_breakdown[i].remaining_compensable_losses =
                  IF calls = <<>> THEN StartBalance(i)
                  ELSE Last(calls).locals_after.compensable_losses

CarryRule ==
    /\ \A i \in DOMAIN fifo_log : CarryConsumed(fifo_log[i])
    /\ \A i \in 1..cursor.month : CarryThreaded(i)
    /\ (pc = "day" /\ cursor.day = 1) =>
          month.compensable_losses = StartBalance(cursor.month)

\* a carryforward of 1000.00 came in and the first month had one FIFO call, with
\* a gain of 1500.00
CarryExample ==
    /\ pc = "done"
    /\ compensable_losses = 100000
    /\ Len(FifoCallsOf(1)) = 1
    /\ FifoCallsOf(1)[1].gain_loss = 150000

\* as claimed: the first month then reports a taxable gain of 500.00, and every
\* later month starts with a balance of 0
C5_Original ==
    /\ CarryRule
    /\ CarryExample =>
          /\ yearly_summary.monthly_breakdown[1].taxable_gains = 50000
          /\ \A i \in 2..Len(yearly_summary.monthly_breakdown) : StartBalance(i) = 0

\* as amended: the first month reports gains of 500.00, which are its taxable
\* gains when its sales exceed 20000.00 and its exempted gains otherwise
C5_CarryForward ==
    /\ CarryRule
    /\ CarryExample =>
          LET r == yearly_summary.monthly_breakdown[1]
          IN  /\ r.gains = 50000
              /\ r.sales_total > 2000000 => r.taxable_gains = 50000
              /\ r.sales_total <= 2000000 =>
                    (r.taxable_gains = 0 /\ r.exempted_gains = 50000)
              /\ \A i \in 2..Len(yearly_summary.monthly_breakdown) :
                    StartBalance(i) = 0

\* the example with sales above the threshold, followed by a second month
C5_Witness ==
    /\ CarryExample
    /\ Len(yearly_summary.monthly_breakdown) = 2
    /\ yearly_summary.monthly_breakdown[1].sales_total > 2000000
    /\ yearly_summary.monthly_breakdown[1].compensable_losses_used = 100000

(* C6  IRRF netting.  In every summary returned, tax_owed is                    *)
(* max(0.15 * max(total_gains - total_losses, 0)                                *)
(*     + 0.20 * max(day_trade_gains - day_trade_losses, 0) - irrf_paid, 0),     *)
(* in 1/20000 cent: 3000 and 4000 for the two rates; it is never negative.      *)
C6_IrrfNetting ==
    \A i \in DOMAIN results :
        LET ys == results[i]
        IN  /\ ys.tax_owed =
                  Max(3000 * Max(ys.total_gains - ys.total_losses, 0)
                      + 4000 * Max(ys.day_trade_gains - ys.day_trade_losses, 0)
                      - ys.irrf_paid, 0)
            /\ ys.tax_owed >= 0

\* a year with a net gain whose IRRF exceeds the tax computed on it
C6_Witness ==
    /\ pc = "done"
    /\ yearly_summary.total_gains > yearly_summary.total_losses
    /\ yearly_summary.irrf_paid >
           3000 * (yearly_summary.total_gains - yearly_summary.total_losses)
           + yearly_summary.day_trade_tax
    /\ yearly_summary.tax_owed = 0

(* C7  Idempotence, as claimed: a second calculate_taxes() on the same          *)
(* calculator returns the summary the first one returned.                       *)
C7_Idempotent ==
    Len(results) = 2 => results[1] = results[2]

(* C8  Partially matched sell, as claimed: at the end of a day, every sell of   *)
(* the day that was matched as a day trade for less than its quantity has had   *)
(* its remainder run through calculate_fifo_gain_loss.                          *)
C8_SellRemainderFifo ==
    EndOfDay =>
        LET e == Last(day_log)
        IN  \A j \in DOMAIN e.indices :
                LET t == transactions.rows[e.indices[j]]
                IN  (t.transaction_type = "sell" /\ t.is_day_trade /\ t.quantity > 0)
                    => \E i \in DOMAIN fifo_log :
                          /\ fifo_log[i].index = e.indices[j]
                          /\ fifo_log[i].sell.quantity = t.quantity

(* C9  Partially matched buy, as claimed: at the end of a day, for every        *)
(* ticker, the quantity bought that day is the quantity matched as day trades   *)
(* plus the quantity the day added to the inventory.                            *)

\* quantity of the day's buys of ticker k that process_day_trades matched
RECURSIVE MatchedBuys(_, _)
MatchedBuys(idxs, k) ==
    IF idxs = <<>> THEN 0
    ELSE (IF ledger[Head(idxs)].ticker = k /\ ledger[Head(idxs)].transaction_type = "buy"
          THEN ledger[Head(idxs)].quantity - transactions.rows[Head(idxs)].quantity
          ELSE 0)
         + MatchedBuys(Tail(idxs), k)

\* quantity FIFO calls took from the lots of ticker k for the transactions idxs
RECURSIVE FifoTaken(_, _, _)
FifoTaken(log, idxs, k) ==
    IF log = <<>> THEN 0
    ELSE (IF Head(log).sell.ticker = k
             /\ \E j \in DOMAIN idxs : idxs[j] = Head(log).index
          THEN LotsQty(Head(log).before) - LotsQty(Head(log).after) ELSE 0)
         + FifoTaken(Tail(log), idxs, k)

C9_BuyRemainderKept ==
    EndOfDay =>
        LET e == Last(day_log)
        IN  \A k \in Tickers :
                Recorded(e.indices, k, "buy") =
                    MatchedBuys(e.indices, k)
                    + (LotsQty(holdings[k]) - LotsQty(e.holdings_before[k])
                       + FifoTaken(fifo_log, e.indices, k))

(* C10  Day-trade loss carryforward, as claimed: on the first day of a month    *)
(* that was handed a day-trade balance L > 0 and has day-trade gains G > 0,     *)
(* min(G, L) is taken off the gains and added to day_trade_losses_used.         *)

\* the day-trade balance handed to month i of the current run
StartDayTradeBalance(i) ==
    IF i = 1 THEN day_trade_compensable_losses
    ELSE yearly_summary.monthly_breakdown[i - 1].remaining_day_trade_losses

C10_DayTradeCarry ==
    \A d \in DOMAIN day_log :
        LET e == day_log[d]
            L == StartDayTradeBalance(e.month)
            first == \A c \in 1..(d - 1) : day_log[c].month # e.month
        IN  (first /\ L > 0 /\ e.gains > 0) =>
                /\ e.locals_after.day_trade_losses_used = Min(e.gains, L)
                /\ e.locals_after.day_trade_gains = e.gains - Min(e.gains, L)

(* C11  IRRF on every sell, as claimed: the irrf_paid of every month result is  *)
(* 0.00005 times the sum of the recorded sale values (recorded quantity times   *)
(* price plus fee, times the exchange rate) of all sells of the month, matched  *)
(* as day trades or not.                                                        *)

\* sum of the recorded sale values of the sells among ledger[i], i in idxs, that
\* are not in the set skipped
RECURSIVE SalesValue(_, _)
SalesValue(idxs, skipped) ==
    IF idxs = <<>> THEN 0
    ELSE (IF ledger[Head(idxs)].transaction_type = "sell" /\ Head(idxs) \notin skipped
          THEN total_value_brl(ledger[Head(idxs)]) ELSE 0)
         + SalesValue(Tail(idxs), skipped)

C11_IrrfEverySell ==
    \A i \in DOMAIN yearly_summary.monthly_breakdown :
        LET r == yearly_summary.monthly_breakdown[i]
        IN  r.irrf_paid =
                SalesValue(MonthTxs(ledger, r.month), {}) * IRRF_RATE

(* C12  Day-trade volume and the exemption, as claimed: the sales_total of      *)
(* every month result is the sum of the recorded sale values of the month's     *)
(* sells that were not matched as day trades; a matched sell adds nothing.      *)
C12_DayTradeVolumeExcluded ==
    \A i \in DOMAIN yearly_summary.monthly_breakdown :
        LET r == yearly_summary.monthly_breakdown[i]
        IN  r.sales_total =
                SalesValue(MonthTxs(ledger, r.month),
                           { j \in DOMAIN ledger : transactions.rows[j].is_day_trade })

(* C13  Exempt gains, as claimed: a returned summary in which no month has a    *)
(* taxable gain and the day trades of the year have no net gain owes no tax.    *)
C13_ExemptNotTaxed ==
    \A i \in DOMAIN results :
        LET ys == results[i]
        IN  (/\ \A m \in DOMAIN ys.monthly_breakdown :
                   ys.monthly_breakdown[m].taxable_gains = 0
             /\ ys.day_trade_gains <= ys.day_trade_losses)
            => ys.tax_owed = 0

(* C14  Forward carryforward balances.  In every summary returned,              *)
(* compensable_losses = max(total_losses - total_gains, 0) and                  *)
(* day_trade_compensable_losses = max(day_trade_losses - day_trade_gains, 0);   *)
(* both are >= 0, and so are remaining_compensable_losses and                   *)
(* remaining_day_trade_losses of every month result.                            *)
C14_ForwardBalances ==
    /\ \A i \in DOMAIN results :
          LET ys == results[i]
          IN  /\ ys.compensable_losses = Max(ys.total_losses - ys.total_gains, 0)
              /\ ys.day_trade_compensable_losses =
                     Max(ys.day_trade_losses - ys.day_trade_gains, 0)
              /\ ys.compensable_losses >= 0
              /\ ys.day_trade_compensable_losses >= 0
    /\ \A m \in DOMAIN yearly_summary.monthly_breakdown :
          /\ yearly_summary.monthly_breakdown[m].remaining_compensable_losses >= 0
          /\ yearly_summary.monthly_breakdown[m].remaining_day_trade_losses >= 0

\* a year that ends with a swing-trade loss and a day-trade loss to carry forward
C14_Witness ==
    /\ pc = "done"
    /\ results # <<>>
    /\ results[1].compensable_losses > 0
    /\ results[1].day_trade_compensable_losses > 0
    /\ Len(results[1].monthly_breakdown) = 2
    /\ results[1].monthly_breakdown[2].remaining_day_trade_losses > 0

(* C15  Cross-year threading.  A calculator that has been constructed holds as  *)
(* its two balances the compensable_losses and day_trade_compensable_losses of  *)
(* the summary its get_previous_year_losses call obtained from the calculator   *)
(* of the year before, and 0 for both when that call ended without a summary;   *)
(* these are the balances calculate_taxes hands to the first month.             *)

\* how the call for the year before the calculator at depth d ended
PriorCall(d) == Last(SelectSeq(chain_log, LAMBDA e : e.depth = d + 1))

C15_CrossYearThreading ==
    (depth >= 1 /\ pc \notin {"request", "init"}) =>
        /\ \E i \in DOMAIN chain_log : chain_log[i].depth = depth + 1
        /\ LET e == PriorCall(depth)
               normal == IF e.outcome = "summary"
                         THEN e.summary.compensable_losses ELSE 0
               day_trade == IF e.outcome = "summary"
                            THEN e.summary.day_trade_compensable_losses ELSE 0
           IN  /\ compensable_losses = normal
               /\ day_trade_compensable_losses = day_trade
               /\ (pc \in {"day", "tx", "month_end"} /\ cursor.month = 1) =>
                     remaining = [normal |-> normal, day_trade |-> day_trade]

\* the view's calculator constructed after the year before ended with a
\* swing-trade loss and a day-trade loss
C15_Witness ==
    /\ depth = 1
    /\ pc = "constructed"
    /\ \E i \in DOMAIN chain_log : chain_log[i].depth = 2
    /\ PriorCall(1).outcome = "summary"
    /\ PriorCall(1).summary.total_losses > 0
    /\ compensable_losses > 0
    /\ day_trade_compensable_losses > 0

(* C16  Termination, as claimed: the descent into earlier years stops at the    *)
(* first year without transactions, so a request whose user has no rows in the  *)
(* year before never has more than two calculators nested, and never more than  *)
(* three otherwise (only two years hold rows here).                             *)
C16_ChainStops ==
    depth <= IF previous_year_ledger = <<>> THEN 2 ELSE 3

(* C17  Errors, as claimed: no summary is returned to the view by a request     *)
(* during which a call made by get_previous_year_losses raised.                 *)
C17_ErrorsReported ==
    (pc = "done" /\ depth = 1) =>
        \A i \in DOMAIN chain_log : chain_log[i].outcome # "error"

(* C18  Monthly breakdown order.  The months of monthly_breakdown are strictly  *)
(* increasing and each is the month of a transaction; once the loop over the    *)
(* months has ended every month with a transaction has its entry.  The days     *)
(* are processed in strictly increasing date order, each with exactly its        *)
(* transactions in ledger order; FIFO calls are made, and lots appended, in     *)
(* ledger order.                                                                *)

Increasing(s) == \A i \in 1..(Len(s) - 1) : s[i] < s[i + 1]

C18_BreakdownOrder ==
    LET mb == yearly_summary.monthly_breakdown
    IN  /\ Increasing([i \in DOMAIN mb |-> mb[i].month])
        /\ \A i \in DOMAIN mb :
              \E j \in DOMAIN ledger : ledger[j].date.month = mb[i].month
        /\ pc \in {"finish", "done"} =>
              \A j \in DOMAIN ledger :
                  \E i \in DOMAIN mb : mb[i].month = ledger[j].date.month
        /\ \A i \in 1..(Len(day_log) - 1) :
              /\ DateLeq(day_log[i].date, day_log[i + 1].date)
              /\ day_log[i].date # day_log[i + 1].date
        /\ \A i \in DOMAIN day_log :
              day_log[i].indices =
                  SelectSeq(Indices(ledger), LAMBDA j : ledger[j].date = day_log[i].date)
        /\ Increasing([i \in DOMAIN fifo_log |-> fifo_log[i].index])
        /\ \A k \in Tickers :
              \A i \in 1..(Len(holdings[k]) - 1) :
                  DateLeq(holdings[k][i].date, holdings[k][i + 1].date)

\* two months, five days, days with several transactions
C18_Witness ==
    /\ ledger = TwoTickerLedger
    /\ pc = "done"
    /\ Len(yearly_summary.monthly_breakdown) = 2
    /\ Len(day_log) = 5
    /\ Len(Last(day_log).indices) = 4
    /\ Len(fifo_log) = 2

(* C19  Snapshot at invocation, as claimed: the rows a calculator computes on   *)
(* are the rows the ledger held when the view made the calculator (their        *)
(* quantity and day-trade flag apart, which the matching changes).              *)
C19_SnapshotAtInvocation ==
    transactions.cached =>
        /\ Len(transactions.rows) = Len(invoked)
        /\ \A i \in DOMAIN invoked :
              [transactions.rows[i] EXCEPT !.quantity = invoked[i].quantity,
                                           !.is_day_trade = FALSE] = invoked[i]

(* C20  Input validation, as claimed: no step of a request stores a             *)
(* transaction dated outside the requested year.                                *)
C20_OutOfYearRejected ==
    [][previous_year_ledger' = previous_year_ledger]_vars

(* C21  Greedy day-trade matching.  For every day processed and every ticker:   *)
(* the quantity matched off the buys equals the quantity matched off the sells  *)
(* and both equal min(sum of buy quantities, sum of sell quantities); on each   *)
(* side a transaction has a part matched only when every earlier transaction    *)
(* of that side is used up, so at least one side is left with nothing; gains    *)
(* minus losses of the day is the matched sale value minus the matched cost;    *)
(* and a transaction is flagged is_day_trade exactly when a positive quantity   *)
(* of it was matched.                                                           *)

\* what process_day_trades took off the transaction at ledger index j
Matched(j) == ledger[j].quantity - transactions.rows[j].quantity

\* the indices among idxs of the transactions of ticker k with the given type
Side(idxs, k, type) ==
    SelectSeq(idxs, LAMBDA j : ledger[j].ticker = k /\ ledger[j].transaction_type = type)

RECURSIVE MatchedQty(_)
MatchedQty(idxs) ==
    IF idxs = <<>> THEN 0 ELSE Matched(Head(idxs)) + MatchedQty(Tail(idxs))

RECURSIVE MatchedValue(_)
MatchedValue(idxs) ==
    IF idxs = <<>> THEN 0
    ELSE Matched(Head(idxs)) * ledger[Head(idxs)].price_usd
                             * ledger[Head(idxs)].exchange_rate
         + MatchedValue(Tail(idxs))

\* in list order: a later transaction is touched only when the earlier are used up
InListOrder(side) ==
    \A a, b \in DOMAIN side :
        (a < b /\ Matched(side[b]) > 0) => transactions.rows[side[a]].quantity = 0

GreedyMatched(e) ==
    /\ \A k \in Tickers :
          LET buys == Side(e.indices, k, "buy")
              sells == Side(e.indices, k, "sell")
          IN  /\ MatchedQty(buys) = MatchedQty(sells)
              /\ MatchedQty(buys) = Min(Recorded(e.indices, k, "buy"),
                                        Recorded(e.indices, k, "sell"))
              /\ InListOrder(buys)
              /\ InListOrder(sells)
              /\ \/ \A j \in DOMAIN buys : transactions.rows[buys[j]].quantity = 0
                 \/ \A j \in DOMAIN sells : transactions.rows[sells[j]].quantity = 0
    /\ \A j \in DOMAIN e.indices :
          /\ Matched(e.indices[j]) >= 0
          /\ transactions.rows[e.indices[j]].is_day_trade <=> Matched(e.indices[j]) > 0
    /\ e.gains >= 0
    /\ e.losses >= 0
    /\ e.gains - e.losses =
          MatchedValue(SelectSeq(e.indices, LAMBDA j : ledger[j].transaction_type = "sell"))
          - MatchedValue(SelectSeq(e.indices, LAMBDA j : ledger[j].transaction_type = "buy"))

C21_GreedyMatching ==
    \A d \in DOMAIN day_log : GreedyMatched(day_log[d])

\* a day with two buys and a sell that uses up the first buy and a part of the
\* second
C21_Witness ==
    /\ day_log # <<>>
    /\ LET e == Last(day_log)
           buys == Side(e.indices, "PBR", "buy")
           sells == Side(e.indices, "PBR", "sell")
       IN  /\ Len(buys) = 2
           /\ Len(sells) = 1
           /\ transactions.rows[buys[1]].quantity = 0
           /\ Matched(buys[2]) > 0
           /\ transactions.rows[buys[2]].quantity > 0

(* C22  FIFO slices.  Every call of calculate_fifo_gain_loss returns the sum     *)
(* over the slices it consumed of quantity * sell price * sell rate minus        *)
(* quantity * lot price * lot rate, where every lot it reads carries the price   *)
(* and rate of a recorded buy of the ticker; and the slice quantities of the     *)
(* call sum to the quantity of the sell.                                         *)

\* the quantity the call of the log entry e took from the lots
SliceQty(e) == LotsQty(e.before) - LotsQty(e.after)

\* the gain of the slices, each leg valued at its own price and exchange rate
SliceGain(e) ==
    SliceQty(e) * e.sell.price_usd * e.sell.exchange_rate
    - (LotsCost(e.before) - LotsCost(e.after))

\* every lot the call read has the price, rate and date of a recorded buy
LotsAsRecorded(e) ==
    \A j \in DOMAIN e.before :
        \E i \in DOMAIN ledger :
            /\ ledger[i].transaction_type = "buy"
            /\ ledger[i].ticker = e.sell.ticker
            /\ ledger[i].price_usd = e.before[j].price
            /\ ledger[i].exchange_rate = e.before[j].exchange_rate
            /\ ledger[i].date = e.before[j].date

SliceGainRule ==
    \A i \in DOMAIN fifo_log :
        /\ fifo_log[i].gain_loss = SliceGain(fifo_log[i])
        /\ LotsAsRecorded(fifo_log[i])

C22_SlicesSumToSold ==
    /\ SliceGainRule
    /\ \A i \in DOMAIN fifo_log : SliceQty(fifo_log[i]) = fifo_log[i].sell.quantity

(* C23  Lot inventory.  In every state every lot held for a ticker has a         *)
(* remaining quantity greater than zero and the lots of a ticker are in          *)
(* non-decreasing acquisition-date order; and in every step the lots of a        *)
(* ticker are those of before, a prefix of them possibly removed and the         *)
(* remaining ones with the same or a smaller quantity, or those of before with   *)
(* one new lot appended: the quantity of a lot never increases.                  *)

LotsWellFormed ==
    \A k \in Tickers :
        /\ \A j \in DOMAIN holdings[k] : holdings[k][j].quantity > 0
        /\ \A a, b \in DOMAIN holdings[k] :
              a < b => DateLeq(holdings[k][a].date, holdings[k][b].date)

\* the lot after is the lot before with a quantity that has not grown
SameLotNotGrown(before, after) ==
    /\ after.quantity <= before.quantity
    /\ [after EXCEPT !.quantity = before.quantity] = before

LotsStep(before, after) ==
    \/ /\ Len(after) = Len(before) + 1
       /\ SubSeq(after, 1, Len(before)) = before
    \/ /\ Len(after) <= Len(before)
       /\ \A j \in DOMAIN after :
             SameLotNotGrown(before[j + Len(before) - Len(after)], after[j])

C23_LotInventory ==
    /\ []LotsWellFormed
    /\ [][\A k \in Tickers : LotsStep(holdings[k], holdings'[k])]_vars

\* a sell has used up the first of two lots, which is gone, and a part of the
\* second, which is held with what is left of it
C23_Witness ==
    /\ fifo_log # <<>>
    /\ LET e == Last(fifo_log)
       IN  /\ Len(e.before) = 2
           /\ Len(e.after) = 1
           /\ e.after[1].quantity < e.before[2].quantity
           /\ holdings[e.sell.ticker] = e.after

(* C24  Inventory fresh per year.  Every calculate_taxes starts with an empty    *)
(* lot list for every ticker and with the two carryforward balances its          *)
(* calculator got from the year before as the only thing threaded in; and in     *)
(* every call of calculate_fifo_gain_loss the lots offered to the sell are lots  *)
(* of buys of the calculator's own year recorded before the sell, so that what   *)
(* an earlier year left open is not available.                                   *)

\* quantity of ticker k with the given type in the first n rows of l
RECURSIVE QtyOf(_, _, _, _)
QtyOf(l, n, k, type) ==
    IF n = 0 THEN 0
    ELSE (IF l[n].ticker = k /\ l[n].transaction_type = type THEN l[n].quantity ELSE 0)
         + QtyOf(l, n - 1, k, type)

\* the lots of the FIFO call e come from buys among the rows before the sell
LotsFrom(rows, e) ==
    /\ \A j \in DOMAIN e.before :
          \E i \in DOMAIN rows :
              /\ i < e.index
              /\ rows[i].transaction_type = "buy"
              /\ rows[i].ticker = e.sell.ticker
              /\ Lot(rows[i]).price = e.before[j].price
              /\ Lot(rows[i]).exchange_rate = e.before[j].exchange_rate
              /\ Lot(rows[i]).date = e.before[j].date
              /\ e.before[j].quantity <= rows[i].quantity
    /\ LotsQty(e.before) <= QtyOf(rows, e.index - 1, e.sell.ticker, "buy")

OwnYearLots ==
    pc \in {"day", "tx", "month_end", "finish", "done"} =>
        \A i \in DOMAIN fifo_log : LotsFrom(YearRows(depth), fifo_log[i])

StartsFresh ==
    (pc = "constructed" /\ pc' # "constructed") =>
        /\ holdings' = NoHoldings
        /\ remaining' = [normal |-> compensable_losses,
                         day_trade |-> day_trade_compensable_losses]

C24_FreshInventory ==
    /\ []OwnYearLots
    /\ [][StartsFresh]_vars

\* the year before ended with shares of PBR bought and not sold, its summary was
\* handed over, and a sell of PBR in the requested year found no lot
C24_Witness ==
    /\ depth = 1
    /\ pc = "done"
    /\ chain_log # <<>>
    /\ Last(chain_log).outcome = "summary"
    /\ QtyOf(previous_year_ledger, Len(previous_year_ledger), "PBR", "buy")
          > QtyOf(previous_year_ledger, Len(previous_year_ledger), "PBR", "sell")
    /\ fifo_log # <<>>
    /\ Last(fifo_log).sell.ticker = "PBR"
    /\ Last(fifo_log).before = <<>>

(* C25  Unconsumed carryforward kept.  When calculate_taxes has returned, the    *)
(* compensable_losses of its summary is at least the normal-trade carryforward   *)
(* the calculator started with minus previous_year_losses_used; and when the     *)
(* year has no sell it equals the carryforward the calculator started with.      *)
NoSells ==
    \A i \in DOMAIN transactions.rows : transactions.rows[i].transaction_type # "sell"

C25_CarryNotLost ==
    (pc = "done" /\ results # <<>>) =>
        LET ys == Last(results)
        IN  /\ ys.compensable_losses
                  >= compensable_losses - ys.previous_year_losses_used
            /\ NoSells => ys.compensable_losses = compensable_losses

(* C26  Use of prior-year losses bounded.  When calculate_taxes has returned,    *)
(* previous_year_losses_used is at most the normal-trade carryforward the        *)
(* calculator started with, previous_year_day_trade_losses_used is at most the   *)
(* day-trade carryforward it started with, and for every month of the breakdown  *)
(* and both regimes the losses used in the month plus the balance the month      *)
(* returns equal the balance the month received (the starting balance for the    *)
(* first month, the balance returned by the month before for the others).        *)

\* the balances calculate_taxes passed to the month at position j of breakdown mb
Received(mb, j) ==
    IF j = 1
    THEN [normal |-> compensable_losses, day_trade |-> day_trade_compensable_losses]
    ELSE [normal |-> mb[j - 1].remaining_compensable_losses,
          day_trade |-> mb[j - 1].remaining_day_trade_losses]

NormalUseBounded ==
    (pc = "done" /\ results # <<>>) =>
        LET ys == Last(results)
            mb == ys.monthly_breakdown
        IN  /\ ys.previous_year_losses_used <= compensable_losses
            /\ \A j \in DOMAIN mb :
                  mb[j].compensable_losses_used + mb[j].remaining_compensable_losses
                      = Received(mb, j).normal

DayTradeUseBounded ==
    (pc = "done" /\ results # <<>>) =>
        LET ys == Last(results)
            mb == ys.monthly_breakdown
        IN  /\ ys.previous_year_day_trade_losses_used <= day_trade_compensable_losses
            /\ \A j \in DOMAIN mb :
                  mb[j].day_trade_losses_used + mb[j].remaining_day_trade_losses
                      = Received(mb, j).day_trade

C26_UseBounded == NormalUseBounded /\ DayTradeUseBounded

(* C27  Repeating a request.  When the same request has been posted a second     *)
(* time, its tax_calculation equals the one of the first time; and handling the  *)
(* second post leaves the ledger as the first post left it, with each submitted  *)
(* transaction in it once.                                                       *)
C27_RepeatSameAnswer ==
    /\ [](Len(results) = 2 => results[2] = results[1])
    /\ [][(pc = "done" /\ pc' = "constructed") => ledger' = ledger]_vars

(* C28  Daily rate limit under concurrency.  Between two resets of the counter   *)
(* the number of requests of the user that were let through to the view is at    *)
(* most DailyLimit, however the requests interleave; and daily_requests is the   *)
(* number of requests whose response has incremented it: every one of them       *)
(* raised it by exactly one.                                                     *)

\* requests that were not answered with the rate-limit rejection
Admitted == { r \in Requests : requests[r].pc \in {"served", "answered"} }

\* requests whose process_response has run increment_requests
Incremented == { r \in Requests : requests[r].pc \in {"answered", "refused"} }

LimitRespected == Cardinality(Admitted) <= DailyLimit

NoLostUpdate == daily_requests = Cardinality(Incremented)

C28_DailyLimit == LimitRespected /\ NoLostUpdate

(* C29  Price alerts fire.  For every alert a run of check_price_alerts visited  *)
(* while the latest quote of its ticker met its condition ('above': price >=     *)
(* target, 'below': price <= target) a notification was attempted in that run;   *)
(* when it succeeded the alert is inactive with triggered_at set and no later    *)
(* run visits it; when it failed the alert stayed active.                        *)

\* the condition of the alert row a is met by the price p
ConditionMet(a, p) ==
    \/ a.condition_type = "above" /\ p >= a.target_value
    \/ a.condition_type = "below" /\ p <= a.target_value

C29_AlertsFire ==
    \A j \in DOMAIN checked :
        LET e == checked[j]
        IN  (e.price # NoQuote /\ ConditionMet(alerts[e.alert], e.price)) =>
                /\ e.outcome \in {"sent", "failed"}
                /\ e.outcome = "sent" =>
                      /\ ~alerts[e.alert].is_active
                      /\ alerts[e.alert].triggered_at # 0
                      /\ \A l \in DOMAIN checked :
                            (l > j /\ checked[l].alert = e.alert)
                                => checked[l].run = e.run
                /\ (e.outcome = "failed" /\ task.pc = "loop" /\ task.runs + 1 = e.run)
                      => alerts[e.alert].is_active

(* C30  Notification rate limit.  For every user and channel no eleven           *)
(* notifications went out within one hour: of any max_per_hour + 1 consecutive   *)
(* ones the last is more than an hour after the first.                           *)
C30_NotificationLimit ==
    \A key \in NotificationKeys :
        \A j \in DOMAIN sent[key] :
            (j + max_per_hour) \in DOMAIN sent[key]
                => sent[key][j + max_per_hour] - sent[key][j] > HourSeconds

====
